---- MODULE Spec2Model ----
(***************************************************************************)
(* Model of the crawler core of mylinovel:                                 *)
(*   - crawler/special_chapter_resolver.py  (resolve_next_chapter_url,     *)
(*     resolve_all_special_chapters)        specification Spec             *)
(*   - crawler/downloader.py (Downloader.download, _sleep_for_rate_limit)  *)
(*                                          specification SpecDL           *)
(*   - crawler/chapter_parser.py (ChapterParser.parse_chapter,             *)
(*     _download_chapter_content, _find_next_page_url), run on the         *)
(*     structure a pass left            specification SpecBook             *)
(* URLs are records: kind says what the string looks like, abs whether it  *)
(* starts with "http", art/chap/pg are the ids of                          *)
(* /novel/<art>/<chap>[_<pg>].html (pg = 1: no page suffix).               *)
(***************************************************************************)
EXTENDS Integers, Sequences, FiniteSets, TLC

\* ------------------------------------------------------------------ bounds
MaxChapters == 3        \* chapters of the book
MaxSiteChapters == 3    \* chapters of the site
MaxVolumes == 2         \* volumes of the book
MaxOdd == 1             \* entries that are neither "special" nor "normal"
MaxPages == 2           \* pages of one site chapter
MaxHops == 2            \* max_hops of resolve_next_chapter_url (scaled)
MaxRuns == 2            \* resolve_all_special_chapters passes on one book
MaxRetry == 3           \* largest retry_times a Downloader is built with
MaxDur == 1             \* longest a session.get takes, in seconds
MaxIdle == 1            \* longest the caller idles before a download call
MaxCalls == 2           \* download calls of the process
MaxIndex == 2           \* chapter indexes ChapterStorage is given
MaxClock == 4           \* last instant of the two-thread runs
MaxHint == 4            \* largest Retry-After a 429 response carries

\* two Downloader objects of one process
Instances == {"A", "B"}

\* the threads that call download on one instance
Threads == {"T1", "T2"}

\* ------------------------------------------- Downloader.__init__ defaults
retry_delay == 1
base_interval == 1
interval_jitter == 1

\* -------------------------------------------------------------------- URLs
Url(k, a, art, chap, pg) ==
    [kind |-> k, abs |-> a, art |-> art, chap |-> chap, pg |-> pg]

\* "javascript:cid(0)"
PLACEHOLDER == Url("placeholder", FALSE, 0, 0, 0)
\* Python None (no url, no nextpage, no result)
NONE == Url("none", FALSE, 0, 0, 0)
\* downloader.download raised
FAIL == Url("fail", FALSE, 0, 0, 0)
\* page of the site not fetched so far
UNKNOWN == Url("unknown", FALSE, 0, 0, 0)
\* the empty string
EMPTY == Url("empty", FALSE, 0, 0, 0)

\* /novel/<art>/<chap>[_<pg>].html, with or without scheme and host
Page(a, art, chap, pg) == Url("page", a, art, chap, pg)
\* a url that does not contain /novel/<d>/<d>.html, e.g. /about.html
Other(a) == Url("other", a, 0, 0, 0)
\* a string matching CHAPTER_ID_PATTERN that urlsplit rejects with
\* ValueError, e.g. //[x/novel/1/2.html or http://[x/novel/1/2.html
Bad(a, art, chap) == Url("bad", a, art, chap, 1)
\* a path with dot segments after a chapter address,
\* /novel/<art>/<chap>.html/../<chap-1>_2.html: CHAPTER_ID_PATTERN.search
\* finds (art, chap) in it, urljoin removes the dot segments
Dots(art, chap) == Url("dots", FALSE, art, chap, 1)

NoIds == <<0, 0>>

_extract_article_and_chapter(u) ==
    IF u.kind \in {"page", "bad", "dots"} THEN <<u.art, u.chap>> ELSE NoIds

\* str.startswith("http")
startswith_http(u) == u.abs

\* urllib.parse.urljoin(base_url, u) raises ValueError
urljoin_raises(u) == u.kind = "bad"

urljoin_Identity(u) == u

\* urllib.parse.urljoin(base_url, u), base_url = https://www.linovelib.com
urljoin(u) ==
    CASE u.kind \in {"page", "other"} -> [u EXCEPT !.abs = TRUE]
      [] u.kind = "placeholder" -> u
      [] u.kind = "empty" -> Url("other", TRUE, 0, 0, 0)
      [] u.kind = "dots" -> Url("page", TRUE, u.art, u.chap - 1, 2)
      [] OTHER -> u

\* ---------------------------------------------------------- book structure
\* chapter dict of CatalogParser._extract_volumes; original_url = NONE means
\* the key is absent
Chapter(i, u, nr) ==
    [index |-> i, title |-> i, url |-> u, needs_resolve |-> nr,
     original_url |-> NONE]

\* how a catalog entry looks when resolve_all_special_chapters is called:
\*   "special": href javascript:cid(0), needs_resolve = True
\*   "normal" : href of the first page of the chapter at this position
\*   "nolink" : a link that is not a chapter page (no ids can be parsed)
\*   "stale"  : an entry marked needs_resolve = False that carries the
\*              placeholder (a hand-edited or older structure file)
EntryKinds == {"special", "normal", "nolink", "stale"}

Entry(i, k) ==
    CASE k = "special" -> Chapter(i, PLACEHOLDER, TRUE)
      [] k = "normal" -> Chapter(i, Page(TRUE, 1, i, 1), FALSE)
      [] k = "nolink" -> Chapter(i, Other(TRUE), FALSE)
      [] k = "blank" -> Chapter(i, EMPTY, FALSE)
      [] OTHER -> Chapter(i, PLACEHOLDER, FALSE)

RECURSIVE SumSeq(_)
SumSeq(s) == IF s = <<>> THEN 0 ELSE Head(s) + SumSeq(Tail(s))

\* the ways MaxChapters chapters are split into non-empty volumes
Shapes ==
    {s \in UNION {[1..n -> 1..MaxChapters] : n \in 1..MaxVolumes} :
        SumSeq(s) = MaxChapters}

\* the kinds of the entries, in document order
KindLists ==
    {k \in [1..MaxChapters -> EntryKinds] :
        Cardinality({i \in 1..MaxChapters : k[i] \in {"nolink", "stale"}})
            <= MaxOdd}

Offset(s, v) == SumSeq(SubSeq(s, 1, v - 1))

MakeBook(s, kinds) ==
    [v \in 1..Len(s) |->
        [volume_name |-> v,
         chapters |-> [c \in 1..s[v] |->
                          Entry(Offset(s, v) + c, kinds[Offset(s, v) + c])]]]

Books == {MakeBook(s, k) : s \in Shapes, k \in KindLists}

\* a structure file can also hold an entry without address ("blank": url
\* missing or empty, needs_resolve = False), which the catalog parser never
\* writes
FileKindLists ==
    {k \in [1..MaxChapters -> EntryKinds \cup {"blank"}] :
        Cardinality({i \in 1..MaxChapters : k[i] \notin {"special", "normal"}})
            <= MaxOdd}

FileBooks == {MakeBook(s, k) : s \in Shapes, k \in FileKindLists}

\* flat list of the chapters in document order
RECURSIVE Flat(_)
Flat(vols) ==
    IF vols = <<>> THEN <<>> ELSE Head(vols).chapters \o Flat(Tail(vols))

\* -------------------------------------------------------------- the site
\* pages that can be fetched: https://www.linovelib.com/novel/1/<c>[_<p>].html
SitePages == {Page(TRUE, 1, c, p) : c \in 1..MaxSiteChapters, p \in 1..MaxPages}

\* what `var nextpage="..."` of a page can hold
Pointers ==
    {Page(FALSE, 1, c, p) : c \in 1..MaxSiteChapters, p \in 1..MaxPages}
    \cup {Page(TRUE, 1, c, 1) : c \in 1..MaxSiteChapters}
    \cup {Page(FALSE, 2, 1, 1), Other(FALSE)}
    \cup {Bad(FALSE, 1, c) : c \in 1..MaxSiteChapters}
    \cup {Dots(1, c) : c \in 2..MaxSiteChapters}

\* result of one download + _extract_nextpage_path: a pointer, NONE when the
\* page has no nextpage variable, FAIL when download raised
Outcomes == Pointers \cup {NONE, FAIL}

\* ------------------------------------------------------------------ state
VARIABLES
    volumes,        \* book_structure["volumes"]
    pc,             \* where resolve_all_special_chapters is
    vi, ci,         \* loop position of resolve_all_special_chapters (1-based)
    prev_url,       \* prev_chapter_url of the current resolve_next_chapter_url
    visited,        \* visited of resolve_next_chapter_url
    current_url,    \* current_url of resolve_next_chapter_url
    hops,           \* iterations of `for _ in range(max_hops)` begun
    resolved_url,   \* value returned by resolve_next_chapter_url
    site,           \* what each page of the site answered so far
    flaky,          \* passes in which a download failed for a passing reason
    trail,          \* <<url, outcome>> of each download of the current call
    run,            \* passes begun
    book0,          \* volumes when the current pass began
    used            \* per target of the current pass: prev_url it was given

\* Downloader
VARIABLES
    retry_times,     \* retry_times of the Downloader instances
    last_request_ts, \* _last_request_ts of each Downloader instance
    self,            \* the instance download is called on
    dl_url,          \* url of download, after lines 112-113
    retry_after,     \* Retry-After of the last attempt's 429 answer, else -1
    wait_time,       \* wait_time of the backoff of the last attempt, else 0
    slept,           \* what _sleep_for_rate_limit slept in the last attempt
    now,             \* time.monotonic()
    dpc,             \* where download is: "idle" or "loop"
    attempt,         \* attempt of `for attempt in range(self.retry_times)`
    last_exception,  \* last_exception of download
    dresult,         \* how the last download call ended
    tries,           \* attempts begun in the current download call
    gets,            \* session.get calls of the current download call
    refetches,       \* requests issued again in the current download call
    waits,           \* backoff sleeps of the current download call
    calls,           \* download calls begun
    prev_end,        \* per instance: when its previous download call ended
    prev_ok,         \* whether the previous download call returned
    gap,             \* first session.get of the current call minus prev_end
    last_done        \* per instance: when its latest request was answered

\* ChapterParser.parse_chapter
VARIABLES
    cpc,            \* where parse_chapter is
    todo,           \* chapters_to_process
    cidx,           \* position in chapters_to_process (1-based)
    force,          \* force_redownload
    stored,         \* indexes of the chapters ChapterStorage holds
    loads,          \* targets of the driver.get calls of this parse_chapter
    cur,            \* address of the page _download_chapter_content is at
    npages,         \* pages of the current chapter loaded
    loaded,         \* their addresses, in the order of the driver.get calls
    file            \* volumes of data/books/<book_id>_structure.json

\* ChapterStorage
VARIABLES
    title_file,     \* per index: text of <index>_title.txt
    content_file,   \* per index: text of <index>_content.md
    spc,            \* where save_chapter is
    chapter_index,  \* chapter_index of the save_chapter under way
    title,          \* its title
    content         \* its content

\* two threads calling download on one Downloader
VARIABLES
    tpc,            \* per thread: where its download call is
    seen_ts,        \* per thread: _last_request_ts its pacing check read
    wake,           \* per thread: when its pacing sleep ends
    started         \* per thread: when its session.get began

svars == <<title_file, content_file, spc, chapter_index, title, content>>

tvars == <<tpc, seen_ts, wake, started>>

cvars == <<cpc, todo, cidx, force, stored, loads, cur, npages, loaded,
           file>>

dvars == <<retry_times, last_request_ts, self, dl_url, retry_after, wait_time,
           slept, now, dpc, attempt, last_exception,
           dresult, tries, gets, refetches, waits, calls, prev_end, prev_ok,
           gap, last_done>>

rvars == <<volumes, pc, vi, ci, prev_url, visited, current_url, hops,
           resolved_url, site, flaky, trail, run, book0, used>>

\* ------------------------------------------------ resolve_all helpers
NoPos == <<0, 0>>

\* the first resolved chapter of the list up to c, not the last
ScanBack_Farthest(ch_list, c) ==
    LET ok == {k \in 1..c : ~ch_list[k].needs_resolve}
    IN  IF ok = {} THEN 0 ELSE CHOOSE k \in ok : \A m \in ok : k <= m

\* inner loop of find_prev_normal_chapter: for c in range(start, -1, -1)
RECURSIVE ScanBack(_, _)
ScanBack(ch_list, c) ==
    IF c < 1 THEN 0
    ELSE IF ~ch_list[c].needs_resolve THEN c
    ELSE ScanBack(ch_list, c - 1)

\* outer loop of find_prev_normal_chapter: for v in range(vol_idx, -1, -1)
RECURSIVE FindPrevFrom(_, _, _, _)
FindPrevFrom(vols, vol_idx, ch_idx, v) ==
    IF v < 1 THEN NoPos
    ELSE LET ch_list == vols[v].chapters
             start == IF v = vol_idx THEN ch_idx - 1 ELSE Len(ch_list)
             c == ScanBack(ch_list, start)
         IN  IF c # 0 THEN <<v, c>>
             ELSE FindPrevFrom(vols, vol_idx, ch_idx, v - 1)

find_prev_Snapshot(vols, vol_idx, ch_idx) ==
    FindPrevFrom(book0, vol_idx, ch_idx, vol_idx)

find_prev_normal_chapter(vols, vol_idx, ch_idx) ==
    FindPrevFrom(vols, vol_idx, ch_idx, vol_idx)

\* `not prev_url or prev_url == "javascript:cid(0)"`
InvalidPrevUrl(u) == u.kind \in {"none", "empty", "placeholder"}

UpdatedChapter_UrlFirst(c, url) ==
    [c EXCEPT !.original_url = url, !.url = url, !.needs_resolve = FALSE]

UpdatedChapter_KeepUrl(c, url) ==
    [c EXCEPT !.original_url = c.url, !.needs_resolve = FALSE]

\* lines 233-236: the in-place update of the chapter dict
UpdatedChapter(c, url) ==
    [c EXCEPT !.original_url = c.url, !.url = url, !.needs_resolve = FALSE]

\* document position of chapter ci of volume vi
RECURSIVE Pos(_, _, _)
Pos(vols, v, c) ==
    IF v <= 1 THEN c ELSE Len(vols[v - 1].chapters) + Pos(vols, v - 1, c)

NeedsResolve_Always(c) == TRUE

\* ch.get("needs_resolve") of the main loop
NeedsResolve(c) == c.needs_resolve

InLoop == pc = "loop" /\ vi <= Len(volumes)
AtChapter == InLoop /\ ci <= Len(volumes[vi].chapters)
ch == volumes[vi].chapters[ci]
\* the nearest resolved chapter before the target or, failing that, after it
prev_info_OrNext ==
    LET p == find_prev_normal_chapter(volumes, vi, ci)
        normal == {q \in (1..Len(volumes)) \X (1..MaxChapters) :
                      /\ q[2] <= Len(volumes[q[1]].chapters)
                      /\ ~volumes[q[1]].chapters[q[2]].needs_resolve}
    IN  IF p # NoPos \/ normal = {} THEN p ELSE CHOOSE q \in normal : TRUE

prev_info == find_prev_normal_chapter(volumes, vi, ci)
prev_ch == volumes[prev_info[1]].chapters[prev_info[2]]

\* locals of resolve_next_chapter_url are gone once it has returned
ClearCall ==
    /\ prev_url' = NONE
    /\ visited' = {}
    /\ current_url' = NONE
    /\ hops' = 0
    /\ resolved_url' = NONE
    /\ trail' = <<>>

callvars == <<prev_url, visited, current_url, hops, resolved_url, trail>>
envvars == <<site, flaky>>
histvars == <<run, book0, used>>

\* ------------------------------------------- resolve_all_special_chapters
Start ==
    /\ pc \in {"idle", "done", "raised"}
    /\ run < MaxRuns
    /\ pc' = "loop"
    /\ vi' = 1
    /\ ci' = 1
    /\ run' = run + 1
    /\ book0' = volumes
    /\ used' = [i \in 1..MaxChapters |-> NONE]
    /\ ClearCall
    /\ UNCHANGED <<volumes, envvars>>
    /\ UNCHANGED <<dvars, cvars, svars, tvars>>

\* for vi, vol in enumerate(volumes): exhausted
EndPass ==
    /\ pc = "loop"
    /\ vi > Len(volumes)
    /\ pc' = "done"
    /\ UNCHANGED <<volumes, vi, ci, callvars, envvars, histvars>>
    /\ UNCHANGED <<dvars, cvars, svars, tvars>>

\* for ci, ch in enumerate(chapters): exhausted
NextVolume ==
    /\ InLoop
    /\ ci > Len(volumes[vi].chapters)
    /\ vi' = vi + 1
    /\ ci' = 1
    /\ UNCHANGED <<volumes, pc, callvars, envvars, histvars>>
    /\ UNCHANGED <<dvars, cvars, svars, tvars>>

\* if not ch.get("needs_resolve"): continue
SkipNormal ==
    /\ AtChapter
    /\ ~NeedsResolve(ch)
    /\ ci' = ci + 1
    /\ UNCHANGED <<volumes, pc, vi, callvars, envvars, histvars>>
    /\ UNCHANGED <<dvars, cvars, svars, tvars>>

\* if not prev_info: continue
SkipNoPrev ==
    /\ AtChapter
    /\ NeedsResolve(ch)
    /\ prev_info = NoPos
    /\ ci' = ci + 1
    /\ UNCHANGED <<volumes, pc, vi, callvars, envvars, histvars>>
    /\ UNCHANGED <<dvars, cvars, svars, tvars>>

\* if not prev_url or prev_url == "javascript:cid(0)": continue
SkipInvalidPrev ==
    /\ AtChapter
    /\ NeedsResolve(ch)
    /\ prev_info # NoPos
    /\ InvalidPrevUrl(prev_ch.url)
    /\ ci' = ci + 1
    /\ UNCHANGED <<volumes, pc, vi, callvars, envvars, histvars>>
    /\ UNCHANGED <<dvars, cvars, svars, tvars>>

CallResolve_NoIdCheck ==
    /\ AtChapter
    /\ NeedsResolve(ch)
    /\ prev_info # NoPos
    /\ ~InvalidPrevUrl(prev_ch.url)
    /\ used' = [used EXCEPT ![Pos(volumes, vi, ci)] = prev_ch.url]
    /\ prev_url' = prev_ch.url
    /\ visited' = {}
    /\ trail' = <<>>
    /\ hops' = 0
    /\ resolved_url' = NONE
    /\ pc' = "hop"
    /\ current_url' = prev_ch.url
    /\ UNCHANGED <<volumes, vi, ci, envvars, run, book0>>
    /\ UNCHANGED <<dvars, cvars, svars, tvars>>

\* resolve_next_chapter_url(prev_url, ...): entry, up to the for loop
CallResolve ==
    /\ AtChapter
    /\ NeedsResolve(ch)
    /\ prev_info # NoPos
    /\ ~InvalidPrevUrl(prev_ch.url)
    /\ used' = [used EXCEPT ![Pos(volumes, vi, ci)] = prev_ch.url]
    /\ prev_url' = prev_ch.url
    /\ visited' = {}
    /\ trail' = <<>>
    /\ hops' = 0
    /\ resolved_url' = NONE
    /\ IF _extract_article_and_chapter(prev_ch.url) = NoIds
         THEN /\ pc' = "ret"
              /\ current_url' = NONE
         ELSE /\ pc' = "hop"
              /\ current_url' = prev_ch.url
    /\ UNCHANGED <<volumes, vi, ci, envvars, run, book0>>
    /\ UNCHANGED <<dvars, cvars, svars, tvars>>

KeepUnresolved_FallsThrough ==
    /\ pc = "ret"
    /\ resolved_url = NONE
    /\ volumes' = [volumes EXCEPT
                     ![vi].chapters[ci] = UpdatedChapter(@, resolved_url)]
    /\ pc' = "loop"
    /\ ci' = ci + 1
    /\ ClearCall
    /\ UNCHANGED <<vi, envvars, histvars>>
    /\ UNCHANGED <<dvars, cvars, svars, tvars>>

\* if not resolved_url: continue
KeepUnresolved ==
    /\ pc = "ret"
    /\ resolved_url = NONE
    /\ pc' = "loop"
    /\ ci' = ci + 1
    /\ ClearCall
    /\ UNCHANGED <<volumes, vi, envvars, histvars>>
    /\ UNCHANGED <<dvars, cvars, svars, tvars>>

\* lines 232-236
UpdateChapter ==
    /\ pc = "ret"
    /\ resolved_url # NONE
    /\ volumes' = [volumes EXCEPT
                     ![vi].chapters[ci] = UpdatedChapter(@, resolved_url)]
    /\ pc' = "loop"
    /\ ci' = ci + 1
    /\ ClearCall
    /\ UNCHANGED <<vi, envvars, histvars>>
    /\ UNCHANGED <<dvars, cvars, svars, tvars>>

\* ----------------------------------------------- resolve_next_chapter_url
ids == _extract_article_and_chapter(prev_url)
article_id == ids[1]
chapter_base == ids[2]

InHop_OneMore == pc = "hop" /\ hops <= MaxHops

\* an iteration of `for _ in range(max_hops)` begins
InHop == pc = "hop" /\ hops < MaxHops

\* lines 117-119 raise: urljoin rejects current_url
JoinFails == ~startswith_http(current_url) /\ urljoin_raises(current_url)

\* lines 117-119
full_url ==
    IF startswith_http(current_url) THEN current_url ELSE urljoin(current_url)

\* downloader.download(full_url) followed by _extract_nextpage_path(html):
\* a page answers the same every time it answers, and any download can
\* fail for a passing reason (timeout, 5xx, 429 beyond the retries)
Download(u, r) ==
    \/ /\ u \notin SitePages
       /\ r = FAIL
       /\ UNCHANGED envvars
    \/ /\ u \in SitePages
       /\ site[u] = UNKNOWN
       /\ r \in Outcomes
       /\ site' = [site EXCEPT ![u] = r]
       /\ UNCHANGED flaky
    \/ /\ u \in SitePages
       /\ site[u] # UNKNOWN
       /\ r = site[u]
       /\ UNCHANGED envvars
    \/ /\ u \in SitePages
       /\ site[u] # FAIL
       /\ r = FAIL
       /\ flaky' = flaky \cup {run}
       /\ UNCHANGED site

Seen_Never(u) == FALSE

\* if full_url in visited
Seen(u) == u \in visited

\* lines 121-132: the iteration gets past the cycle check and downloads
Fetch(r) ==
    /\ InHop
    /\ ~JoinFails
    /\ ~Seen(full_url)
    /\ visited' = visited \cup {full_url}
    /\ hops' = hops + 1
    /\ Download(full_url, r)
    /\ trail' = Append(trail, <<full_url, r>>)

\* return None
ReturnNone ==
    /\ pc' = "ret"
    /\ resolved_url' = NONE
    /\ UNCHANGED <<volumes, vi, ci, prev_url, current_url, histvars>>

\* line 119 raises ValueError, which nothing catches
HopJoinRaises ==
    /\ InHop
    /\ JoinFails
    /\ pc' = "raised"
    /\ hops' = hops + 1
    /\ UNCHANGED <<volumes, vi, ci, prev_url, visited, current_url,
                   resolved_url, trail, envvars, histvars>>
    /\ UNCHANGED <<dvars, cvars, svars, tvars>>

\* if full_url in visited: return None
HopCycle ==
    /\ InHop
    /\ ~JoinFails
    /\ Seen(full_url)
    /\ hops' = hops + 1
    /\ ReturnNone
    /\ UNCHANGED <<visited, trail, envvars>>
    /\ UNCHANGED <<dvars, cvars, svars, tvars>>

HopDownloadFails_TriesOn ==
    /\ Fetch(FAIL)
    /\ UNCHANGED <<volumes, pc, vi, ci, prev_url, current_url, resolved_url,
                   histvars>>
    /\ UNCHANGED <<dvars, cvars, svars, tvars>>

\* except Exception: return None
HopDownloadFails ==
    /\ Fetch(FAIL)
    /\ ReturnNone
    /\ UNCHANGED <<dvars, cvars, svars, tvars>>

\* if not next_path: return None
HopNoNextpage ==
    /\ Fetch(NONE)
    /\ ReturnNone
    /\ UNCHANGED <<dvars, cvars, svars, tvars>>

HopNoIds_Follows ==
    \E r \in Pointers :
        /\ _extract_article_and_chapter(r) = NoIds
        /\ Fetch(r)
        /\ current_url' = r
        /\ UNCHANGED <<volumes, pc, vi, ci, prev_url, resolved_url, histvars>>
        /\ UNCHANGED <<dvars, cvars, svars, tvars>>

\* if not ids2: return None
HopNoIds ==
    \E r \in Pointers :
        /\ _extract_article_and_chapter(r) = NoIds
        /\ Fetch(r)
        /\ ReturnNone
        /\ UNCHANGED <<dvars, cvars, svars, tvars>>

\* if article_id2 != article_id: return None
HopOtherBook ==
    \E r \in Pointers :
        /\ _extract_article_and_chapter(r) # NoIds
        /\ _extract_article_and_chapter(r)[1] # article_id
        /\ Fetch(r)
        /\ ReturnNone
        /\ UNCHANGED <<dvars, cvars, svars, tvars>>

\* if chapter2 == chapter_base: current_url = next_path; continue
HopSameChapter ==
    \E r \in Pointers :
        /\ _extract_article_and_chapter(r) = <<article_id, chapter_base>>
        /\ Fetch(r)
        /\ current_url' = r
        /\ UNCHANGED <<volumes, pc, vi, ci, prev_url, resolved_url, histvars>>
        /\ UNCHANGED <<dvars, cvars, svars, tvars>>

\* the chapter id changed (lines 158-163)
NextChapterPointer(r) ==
    /\ _extract_article_and_chapter(r) # NoIds
    /\ _extract_article_and_chapter(r)[1] = article_id
    /\ _extract_article_and_chapter(r)[2] # chapter_base

\* resolved = urljoin(base_url, next_path); return resolved
HopNextChapter ==
    \E r \in Pointers :
        /\ NextChapterPointer(r)
        /\ ~urljoin_raises(r)
        /\ Fetch(r)
        /\ pc' = "ret"
        /\ resolved_url' = urljoin(r)
        /\ UNCHANGED <<volumes, vi, ci, prev_url, current_url, histvars>>
        /\ UNCHANGED <<dvars, cvars, svars, tvars>>

\* line 159 raises ValueError, which nothing catches
HopNextChapterRaises ==
    \E r \in Pointers :
        /\ NextChapterPointer(r)
        /\ urljoin_raises(r)
        /\ Fetch(r)
        /\ pc' = "raised"
        /\ UNCHANGED <<volumes, vi, ci, prev_url, current_url, resolved_url,
                       histvars>>
        /\ UNCHANGED <<dvars, cvars, svars, tvars>>

\* the for loop ends: lines 165-168
HopExhausted ==
    /\ pc = "hop"
    /\ hops >= MaxHops
    /\ ReturnNone
    /\ UNCHANGED <<visited, hops, trail, envvars>>
    /\ UNCHANGED <<dvars, cvars, svars, tvars>>

\* --------------------------------------------------------- specification
\* no pass has begun
RFresh ==
    /\ pc = "idle"
    /\ vi = 1
    /\ ci = 1
    /\ prev_url = NONE
    /\ visited = {}
    /\ current_url = NONE
    /\ hops = 0
    /\ resolved_url = NONE
    /\ site = [a \in SitePages |-> UNKNOWN]
    /\ flaky = {}
    /\ trail = <<>>
    /\ run = 0
    /\ book0 = volumes
    /\ used = [i \in 1..MaxChapters |-> NONE]

RInit == volumes \in Books /\ RFresh

\* parse_chapter has not been called
CInit ==
    /\ cpc = "idle"
    /\ todo = <<>>
    /\ cidx = 1
    /\ force = FALSE
    /\ stored = {}
    /\ loads = {}
    /\ cur = NONE
    /\ npages = 0
    /\ loaded = <<>>
    /\ file = <<>>

\* no chapter is being saved and the book directory is empty
SQuiet ==
    /\ title_file = [i \in 1..MaxIndex |-> "<no file>"]
    /\ content_file = [i \in 1..MaxIndex |-> "<no file>"]
    /\ spc = "idle"
    /\ chapter_index = 0
    /\ title = ""
    /\ content = ""

\* no thread but the main one
TQuiet ==
    /\ tpc = [t \in Threads |-> "off"]
    /\ seen_ts = [t \in Threads |-> -1]
    /\ wake = [t \in Threads |-> -1]
    /\ started = [t \in Threads |-> -1]

vars == <<rvars, dvars, cvars, svars, tvars>>

\* the downloader of a pass is not looked into: Download above is its effect
DQuiet ==
    /\ retry_times = 3
    /\ last_request_ts = [i \in Instances |-> 0]
    /\ self = "A"
    /\ dl_url = NONE
    /\ retry_after = -1
    /\ wait_time = 0
    /\ slept = 0
    /\ now = 1
    /\ dpc = "idle"
    /\ attempt = 0
    /\ last_exception = [kind |-> "none", at |-> -1]
    /\ dresult = [kind |-> "none", at |-> -1]
    /\ tries = 0
    /\ gets = 0
    /\ refetches = 0
    /\ waits = 0
    /\ calls = 0
    /\ prev_end = [i \in Instances |-> -1]
    /\ prev_ok = FALSE
    /\ gap = -1
    /\ last_done = [i \in Instances |-> -1]

Init == RInit /\ DQuiet /\ CInit /\ SQuiet /\ TQuiet

Next ==
    \/ Start
    \/ EndPass
    \/ NextVolume
    \/ SkipNormal
    \/ SkipNoPrev
    \/ SkipInvalidPrev
    \/ CallResolve
    \/ HopJoinRaises
    \/ HopCycle
    \/ HopDownloadFails
    \/ HopNoNextpage
    \/ HopNoIds
    \/ HopOtherBook
    \/ HopSameChapter
    \/ HopNextChapter
    \/ HopNextChapterRaises
    \/ HopExhausted
    \/ KeepUnresolved
    \/ UpdateChapter

Spec == Init /\ [][Next]_vars

\* ------------------------------------------------------------- Downloader
NoExc == [kind |-> "none", at |-> -1]
\* a requests.RequestException raised in attempt a: kind "e429" is an
\* HTTPError whose response has status 429, "err" any other one
Exc(k, a) == [kind |-> k, at |-> a]

Max(a, b) == IF a >= b THEN a ELSE b

\* the newest _last_request_ts of all instances
LatestTs ==
    CHOOSE x \in {last_request_ts[i] : i \in Instances} :
        \A i \in Instances : last_request_ts[i] <= x

RateLimitSleep_Never(t, j) == 0

RateLimitSleep_Shared(t, j) ==
    IF LatestTs <= 0 THEN 0
    ELSE LET interval == base_interval + j
             elapsed == t - LatestTs
         IN  IF elapsed < interval THEN interval - elapsed ELSE 0

\* _sleep_for_rate_limit at time t with jitter sample j: seconds slept
RateLimitSleep(t, j) ==
    IF last_request_ts[self] <= 0 THEN 0
    ELSE LET interval == base_interval + j
             elapsed == t - last_request_ts[self]
         IN  IF elapsed < interval THEN interval - elapsed ELSE 0

\* what the Retry-After header of a 429 answer holds: -1 when the header is
\* absent or not an integer, else its value
Hints == -1..MaxHint

\* lines 206-210: int(headers.get("Retry-After", "0")), 0 when int() raises
RetryAfter(h) == IF h < 0 THEN 0 ELSE h

Wait429_HintFirst(hint, a) ==
    IF hint > 0 THEN hint ELSE retry_delay * (a + 1) * 3

\* wait_time of the 429 branch (line 211)
Wait429(hint, a) == Max(hint, retry_delay * (a + 1) * 3)

WaitError_Flat(a) == retry_delay

\* wait_time of the other branch
WaitError(a) == retry_delay * (a + 1)

Caught_First(e) == IF last_exception = NoExc THEN e ELSE last_exception

\* line 200: last_exception = e
Caught(e) == e

\* addresses download is called with: a page address with and without
\* scheme and host, and two that are malformed
DlUrls == {Page(TRUE, 1, 1, 1), Page(FALSE, 1, 1, 1),
           Bad(TRUE, 1, 1), Bad(FALSE, 1, 1)}

\* session.get refuses the address before any request is sent: requests
\* raises MissingSchema, InvalidSchema or InvalidURL, each of them a
\* RequestException
Rejected(u) == u.kind = "bad"

\* the RequestException of an attempt that is not a 429 answer
ErrKind == IF Rejected(dl_url) THEN "invalid" ELSE "err"

InAttempt_OneMore == dpc = "loop" /\ attempt <= retry_times

\* for attempt in range(self.retry_times): an attempt begins
InAttempt == dpc = "loop" /\ attempt < retry_times

\* when the first session.get of the attempt is issued
GetAt(j) == now + RateLimitSleep(now, j)

\* when the attempt's last session.get is answered: the request is issued
\* again (re) when the body is Brotli that cannot be decoded
AnsweredAt(j, d, re, d2) == GetAt(j) + d + (IF re THEN d2 ELSE 0)

Gets(re) == IF re THEN 2 ELSE 1

\* Accept-Encoding of the session's default headers (line 79)
session_accept_encoding == "gzip, deflate"

\* Accept-Encoding of headers_no_compression (lines 152-153, 160-161): the
\* key is popped from a copy of the session's headers
headers_no_compression == "absent"

\* headers of a request sent by session.get(url, headers = h): requests
\* merges h over the session's headers, and a key that h lacks keeps the
\* session's value (only a value of None removes it)
merge_setting(request_setting, session_setting) ==
    IF request_setting = "absent" THEN session_setting ELSE request_setting

\* Accept-Encoding the request issued again goes out with (lines 154, 162)
ReissuedAcceptEncoding ==
    merge_setting(headers_no_compression, session_accept_encoding)

\* seconds between the answer to the first session.get of an attempt and
\* the request issued again (lines 149-154, 157-162): nothing sleeps there
RefetchGap == 0

\* the first session.get of a call: how long after the previous call on the
\* same instance ended
NoteGap(j) ==
    gap' = IF gets = 0 /\ prev_end[self] >= 0
             THEN GetAt(j) - prev_end[self] ELSE gap

\* the instances are alike: the one called first is named A
FirstOnA(i) == calls = 0 => i = "A"

\* download(u) is called on instance i
DlCall ==
    \E i \in Instances, u \in DlUrls, g \in 0..MaxIdle :
        /\ dpc = "idle"
        /\ calls < MaxCalls
        /\ FirstOnA(i)
        /\ startswith_http(u) \/ ~urljoin_raises(u)
        /\ self' = i
        /\ dl_url' = IF startswith_http(u) THEN u ELSE urljoin(u)
        /\ now' = now + g
        /\ dpc' = "loop"
        /\ attempt' = 0
        /\ last_exception' = NoExc
        /\ dresult' = NoExc
        /\ tries' = 0
        /\ gets' = 0
        /\ refetches' = 0
        /\ waits' = 0
        /\ calls' = calls + 1
        /\ gap' = -1
        /\ retry_after' = -1
        /\ wait_time' = 0
        /\ slept' = 0
        /\ UNCHANGED <<retry_times, last_request_ts, prev_end, prev_ok,
                       last_done>>
        /\ UNCHANGED <<rvars, cvars, svars, tvars>>

\* the call ends at time t, returning (ok) or raising exc
EndCall(t, ok, exc) ==
    /\ dpc' = "idle"
    /\ now' = t
    /\ prev_end' = [prev_end EXCEPT ![self] = t]
    /\ prev_ok' = ok
    /\ dresult' = IF ok THEN Exc("ok", attempt) ELSE exc

\* the last session.get of the attempt is over at time t, with an answer or
\* with an error of the transport; an address that requests refuses before
\* sending is no request
Answered(t) ==
    last_done' = IF Rejected(dl_url) THEN last_done
                 ELSE [last_done EXCEPT ![self] = t]

\* line 113 raises: urljoin rejects the address, download ends before its
\* first attempt with a ValueError
DlCallRaises ==
    \E i \in Instances, u \in DlUrls, g \in 0..MaxIdle :
        /\ dpc = "idle"
        /\ calls < MaxCalls
        /\ FirstOnA(i)
        /\ ~startswith_http(u)
        /\ urljoin_raises(u)
        /\ self' = i
        /\ dl_url' = u
        /\ attempt' = 0
        /\ last_exception' = NoExc
        /\ tries' = 0
        /\ gets' = 0
        /\ refetches' = 0
        /\ waits' = 0
        /\ calls' = calls + 1
        /\ gap' = -1
        /\ retry_after' = -1
        /\ wait_time' = 0
        /\ slept' = 0
        /\ now' = now + g
        /\ prev_end' = [prev_end EXCEPT ![i] = now + g]
        /\ prev_ok' = FALSE
        /\ dresult' = Exc("ValueError", -1)
        /\ UNCHANGED <<retry_times, last_request_ts, dpc, last_done>>
        /\ UNCHANGED <<rvars, cvars, svars, tvars>>

\* lines 117-198: the attempt returns text_content
AttemptOk ==
    \E j \in 0..interval_jitter, d \in 0..MaxDur :
        /\ InAttempt
        /\ ~Rejected(dl_url)
        /\ NoteGap(j)
        /\ slept' = RateLimitSleep(now, j)
        /\ tries' = tries + 1
        /\ gets' = gets + 1
        /\ UNCHANGED refetches
        /\ last_request_ts' =
              [last_request_ts EXCEPT ![self] = AnsweredAt(j, d, FALSE, 0)]
        /\ EndCall(AnsweredAt(j, d, FALSE, 0), TRUE, NoExc)
        /\ Answered(AnsweredAt(j, d, FALSE, 0))
        /\ retry_after' = -1
        /\ wait_time' = 0
        /\ UNCHANGED <<retry_times, self, dl_url, attempt, last_exception,
                       waits, calls>>
        /\ UNCHANGED <<rvars, cvars, svars, tvars>>

\* lines 136-164: Brotli body that cannot be decoded, the request is issued
\* again without Accept-Encoding and answered
AttemptRefetchOk ==
    \E j \in 0..interval_jitter, d \in 0..MaxDur, d2 \in 0..MaxDur :
        /\ InAttempt
        /\ ~Rejected(dl_url)
        /\ NoteGap(j)
        /\ slept' = RateLimitSleep(now, j)
        /\ tries' = tries + 1
        /\ gets' = gets + 2
        /\ refetches' = refetches + 1
        /\ last_request_ts' =
              [last_request_ts EXCEPT ![self] = AnsweredAt(j, d, TRUE, d2)]
        /\ EndCall(AnsweredAt(j, d, TRUE, d2), TRUE, NoExc)
        /\ Answered(AnsweredAt(j, d, TRUE, d2))
        /\ retry_after' = -1
        /\ wait_time' = 0
        /\ UNCHANGED <<retry_times, self, dl_url, attempt, last_exception,
                       waits, calls>>
        /\ UNCHANGED <<rvars, cvars, svars, tvars>>

Attempt429_Fatal ==
    \E j \in 0..interval_jitter, d \in 0..MaxDur :
        /\ InAttempt
        /\ ~Rejected(dl_url)
        /\ NoteGap(j)
        /\ slept' = RateLimitSleep(now, j)
        /\ tries' = tries + 1
        /\ gets' = gets + 1
        /\ UNCHANGED refetches
        /\ last_exception' = Caught(Exc("e429", attempt))
        /\ EndCall(AnsweredAt(j, d, FALSE, 0), FALSE, Exc("e429", attempt))
        /\ Answered(AnsweredAt(j, d, FALSE, 0))
        /\ retry_after' = -1
        /\ wait_time' = 0
        /\ UNCHANGED <<retry_times, last_request_ts, self, dl_url, attempt,
                       waits, calls>>
        /\ UNCHANGED <<rvars, cvars, svars, tvars>>

\* lines 199-213: a session.get of the attempt is answered 429
Attempt429 ==
    \E j \in 0..interval_jitter, d \in 0..MaxDur, d2 \in 0..MaxDur,
       re \in BOOLEAN, h \in Hints :
        /\ InAttempt
        /\ ~Rejected(dl_url)
        /\ re \/ d2 = 0
        /\ NoteGap(j)
        /\ slept' = RateLimitSleep(now, j)
        /\ tries' = tries + 1
        /\ gets' = gets + Gets(re)
        /\ refetches' = refetches + (IF re THEN 1 ELSE 0)
        /\ last_exception' = Caught(Exc("e429", attempt))
        /\ retry_after' = h
        /\ wait_time' = Wait429(RetryAfter(h), attempt)
        /\ now' = AnsweredAt(j, d, re, d2) + Wait429(RetryAfter(h), attempt)
        /\ Answered(AnsweredAt(j, d, re, d2))
        /\ waits' = waits + 1
        /\ attempt' = attempt + 1
        /\ UNCHANGED <<retry_times, last_request_ts, self, dl_url, dpc, dresult,
                       calls, prev_end, prev_ok>>
        /\ UNCHANGED <<rvars, cvars, svars, tvars>>

\* lines 214-218: another RequestException, not in the last attempt
AttemptErrorRetry ==
    \E j \in 0..interval_jitter, d \in 0..MaxDur, d2 \in 0..MaxDur,
       re \in BOOLEAN :
        /\ InAttempt
        /\ attempt < retry_times - 1
        /\ Rejected(dl_url) => (d = 0 /\ ~re)
        /\ re \/ d2 = 0
        /\ NoteGap(j)
        /\ slept' = RateLimitSleep(now, j)
        /\ tries' = tries + 1
        /\ gets' = gets + Gets(re)
        /\ refetches' = refetches + (IF re THEN 1 ELSE 0)
        /\ last_exception' = Caught(Exc(ErrKind, attempt))
        /\ wait_time' = WaitError(attempt)
        /\ now' = AnsweredAt(j, d, re, d2) + WaitError(attempt)
        /\ Answered(AnsweredAt(j, d, re, d2))
        /\ waits' = waits + 1
        /\ attempt' = attempt + 1
        /\ retry_after' = -1
        /\ UNCHANGED <<retry_times, last_request_ts, self, dl_url, dpc,
                       dresult, calls, prev_end, prev_ok>>
        /\ UNCHANGED <<rvars, cvars, svars, tvars>>

AttemptErrorRaise_Stamps ==
    \E j \in 0..interval_jitter, d \in 0..MaxDur :
        /\ InAttempt
        /\ ~(attempt < retry_times - 1)
        /\ Rejected(dl_url) => d = 0
        /\ NoteGap(j)
        /\ slept' = RateLimitSleep(now, j)
        /\ tries' = tries + 1
        /\ gets' = gets + 1
        /\ UNCHANGED refetches
        /\ last_exception' = Caught(Exc(ErrKind, attempt))
        /\ last_request_ts' =
              [last_request_ts EXCEPT ![self] = AnsweredAt(j, d, FALSE, 0)]
        /\ EndCall(AnsweredAt(j, d, FALSE, 0), FALSE, Exc(ErrKind, attempt))
        /\ Answered(AnsweredAt(j, d, FALSE, 0))
        /\ retry_after' = -1
        /\ wait_time' = 0
        /\ UNCHANGED <<retry_times, self, dl_url, attempt, waits, calls>>
        /\ UNCHANGED <<rvars, cvars, svars, tvars>>

\* lines 219-220: another RequestException in the last attempt: raise
AttemptErrorRaise ==
    \E j \in 0..interval_jitter, d \in 0..MaxDur, d2 \in 0..MaxDur,
       re \in BOOLEAN :
        /\ InAttempt
        /\ ~(attempt < retry_times - 1)
        /\ Rejected(dl_url) => (d = 0 /\ ~re)
        /\ re \/ d2 = 0
        /\ NoteGap(j)
        /\ slept' = RateLimitSleep(now, j)
        /\ tries' = tries + 1
        /\ gets' = gets + Gets(re)
        /\ refetches' = refetches + (IF re THEN 1 ELSE 0)
        /\ last_exception' = Caught(Exc(ErrKind, attempt))
        /\ EndCall(AnsweredAt(j, d, re, d2), FALSE, Exc(ErrKind, attempt))
        /\ Answered(AnsweredAt(j, d, re, d2))
        /\ retry_after' = -1
        /\ wait_time' = 0
        /\ UNCHANGED <<retry_times, last_request_ts, self, dl_url, attempt,
                       waits, calls>>
        /\ UNCHANGED <<rvars, cvars, svars, tvars>>

\* line 223: the for loop ended, raise last_exception (raise None is a
\* TypeError)
RaiseLast ==
    /\ dpc = "loop"
    /\ attempt >= retry_times
    /\ EndCall(now, FALSE,
               IF last_exception = NoExc THEN Exc("TypeError", -1)
               ELSE last_exception)
    /\ UNCHANGED <<retry_times, last_request_ts, self, dl_url, retry_after,
                   wait_time, slept, attempt, last_exception, tries, gets,
                   refetches, waits, calls, gap, last_done>>
    /\ UNCHANGED <<rvars, cvars, svars, tvars>>

DInit ==
    /\ retry_times \in 0..MaxRetry
    /\ last_request_ts = [i \in Instances |-> 0]
    /\ self = "A"
    /\ dl_url = NONE
    /\ retry_after = -1
    /\ wait_time = 0
    /\ slept = 0
    /\ now = 1
    /\ dpc = "idle"
    /\ attempt = 0
    /\ last_exception = NoExc
    /\ dresult = NoExc
    /\ tries = 0
    /\ gets = 0
    /\ refetches = 0
    /\ waits = 0
    /\ calls = 0
    /\ prev_end = [i \in Instances |-> -1]
    /\ prev_ok = FALSE
    /\ gap = -1
    /\ last_done = [i \in Instances |-> -1]

\* no pass runs while the downloader is looked at on its own
RQuiet ==
    /\ volumes = MakeBook(<<MaxChapters>>, [i \in 1..MaxChapters |-> "normal"])
    /\ RFresh

InitDL == DInit /\ RQuiet /\ CInit /\ SQuiet /\ TQuiet

NextDL ==
    \/ DlCall
    \/ DlCallRaises
    \/ AttemptOk
    \/ AttemptRefetchOk
    \/ Attempt429
    \/ AttemptErrorRetry
    \/ AttemptErrorRaise
    \/ RaiseLast

SpecDL == InitDL /\ [][NextDL]_vars

\* ---------------------------------------------- ChapterParser.parse_chapter
CpInvalidUrl_EmptyOnly(u) == u.kind \in {"none", "empty"}

\* `not url or url == "javascript:cid(0)"` (chapter_parser.py line 299)
CpInvalidUrl(u) == u.kind \in {"none", "empty", "placeholder"}

InTodo == cpc = "loop" /\ cidx <= Len(todo)
chapter == todo[cidx]

\* `not force_redownload and storage.chapter_exists(idx)`
CpExists == ~force /\ chapter.index \in stored

\* _find_next_page_url(html, u), the html holding var nextpage = o (NONE:
\* no such variable): the pointer when it stays in the chapter of u, no
\* next page when it leaves it, else the constructed address of page 2
CpFindNext(o, u) ==
    LET current_ids == _extract_article_and_chapter(u)
        next_ids == _extract_article_and_chapter(o)
    IN  IF o # NONE /\ current_ids # NoIds /\ next_ids # NoIds
        THEN IF current_ids = next_ids THEN urljoin(o) ELSE NONE
        ELSE IF current_ids # NoIds THEN Page(TRUE, u.art, u.chap, 2)
        ELSE NONE

\* urljoin of line 520 raises
CpFindNextRaises(o, u) ==
    /\ o # NONE
    /\ _extract_article_and_chapter(u) # NoIds
    /\ _extract_article_and_chapter(o) = _extract_article_and_chapter(u)
    /\ urljoin_raises(o)

PassOver_ReturnedOnly == pc = "done"

\* catalog_parser.py lines 125-133: resolve_all_special_chapters returned,
\* or raised an Exception, which the handler prints and drops
PassOver == pc \in {"done", "raised"}

\* catalog_parser.py lines 135-138: parse_catalog writes the structure to
\* the file and returns it
SaveStructure ==
    /\ PassOver
    /\ cpc = "idle"
    /\ pc' = "saved"
    /\ file' = volumes
    /\ UNCHANGED <<volumes, vi, ci, callvars, envvars, histvars>>
    /\ UNCHANGED <<cpc, todo, cidx, force, stored, loads, cur, npages, loaded>>
    /\ UNCHANGED <<dvars, svars, tvars>>

\* parse_chapter(book_id, chapter_index = sel or all_chapters (sel = 0),
\* force_redownload = f) in a later process: it reads the structure file
\* the catalog stage saved, nothing else of the pass is left, and the site
\* need not answer as it did
CpStart ==
    \E sel \in 0..MaxChapters, f \in BOOLEAN, st \in {{}, {1}} :
        /\ cpc = "idle"
        /\ pc = "saved"
        /\ pc' = "saved"
        /\ vi' = 1
        /\ ci' = 1
        /\ ClearCall
        /\ site' = [a \in SitePages |-> UNKNOWN]
        /\ flaky' = {}
        /\ run' = 0
        /\ book0' = volumes
        /\ used' = [i \in 1..MaxChapters |-> NONE]
        /\ cpc' = "loop"
        /\ todo' = IF sel = 0 THEN Flat(file) ELSE <<Flat(file)[sel]>>
        /\ cidx' = 1
        /\ force' = f
        /\ stored' = st
        /\ loads' = {}
        /\ cur' = NONE
        /\ npages' = 0
        /\ loaded' = <<>>
        /\ UNCHANGED <<volumes, file>>
        /\ UNCHANGED <<dvars, svars, tvars>>

\* the chapter is in the storage: continue
CpSkipExists ==
    /\ InTodo
    /\ CpExists
    /\ cidx' = cidx + 1
    /\ UNCHANGED <<cpc, todo, force, stored, loads, cur, npages, loaded,
                   file>>
    /\ UNCHANGED <<rvars, dvars, svars, tvars>>

\* lines 298-301: the address is not one to load: continue
CpSkipInvalid ==
    /\ InTodo
    /\ ~CpExists
    /\ CpInvalidUrl(chapter.url)
    /\ cidx' = cidx + 1
    /\ UNCHANGED <<cpc, todo, force, stored, loads, cur, npages, loaded,
                   file>>
    /\ UNCHANGED <<rvars, dvars, svars, tvars>>

\* self.driver.get(chapter_url) of _download_chapter_content
CpLoadFirst ==
    /\ InTodo
    /\ ~CpExists
    /\ ~CpInvalidUrl(chapter.url)
    /\ loads' = loads \cup {chapter.url}
    /\ cpc' = "page"
    /\ cur' = chapter.url
    /\ npages' = 1
    /\ loaded' = <<chapter.url>>
    /\ UNCHANGED <<todo, cidx, force, stored, file>>
    /\ UNCHANGED <<rvars, dvars, svars, tvars>>

\* the first page cannot be read, or its nextpage pointer makes urljoin
\* raise: parse_chapter catches the exception and continues
CpChapterFails ==
    /\ cpc = "page"
    /\ npages = 1
    /\ cpc' = "loop"
    /\ cidx' = cidx + 1
    /\ cur' = NONE
    /\ npages' = 0
    /\ loaded' = <<>>
    /\ UNCHANGED <<todo, force, stored, loads, file>>
    /\ UNCHANGED <<rvars, dvars, svars, tvars>>

\* while next_page_url: self.driver.get(next_page_url)
CpLoadNext ==
    \E o \in (Pointers \cup {NONE}) :
        /\ cpc = "page"
        /\ npages < MaxPages
        /\ ~CpFindNextRaises(o, cur)
        /\ CpFindNext(o, cur) # NONE
        /\ loads' = loads \cup {CpFindNext(o, cur)}
        /\ cur' = CpFindNext(o, cur)
        /\ npages' = npages + 1
        /\ loaded' = Append(loaded, CpFindNext(o, cur))
        /\ UNCHANGED <<cpc, todo, cidx, force, stored, file>>
        /\ UNCHANGED <<rvars, dvars, svars, tvars>>

\* no next page, or the page loop breaks: storage.save_chapter
CpSave ==
    /\ cpc = "page"
    /\ stored' = stored \cup {chapter.index}
    /\ cpc' = "loop"
    /\ cidx' = cidx + 1
    /\ cur' = NONE
    /\ npages' = 0
    /\ loaded' = <<>>
    /\ UNCHANGED <<todo, force, loads, file>>
    /\ UNCHANGED <<rvars, dvars, svars, tvars>>

\* the for loop ends; finally: self.close()
CpEnd ==
    /\ cpc = "loop"
    /\ cidx > Len(todo)
    /\ cpc' = "done"
    /\ UNCHANGED <<todo, cidx, force, stored, loads, cur, npages, loaded,
                   file>>
    /\ UNCHANGED <<rvars, dvars, svars, tvars>>

NextCP ==
    \/ SaveStructure
    \/ CpStart
    \/ CpSkipExists
    \/ CpSkipInvalid
    \/ CpLoadFirst
    \/ CpChapterFails
    \/ CpLoadNext
    \/ CpSave
    \/ CpEnd

\* the catalog stage on any structure, then the chapter stage on what it left
InitBook ==
    volumes \in FileBooks /\ RFresh /\ DQuiet /\ CInit /\ SQuiet /\ TQuiet

SpecBook == InitBook /\ [][Next \/ NextCP]_vars

\* ---------------------------------------------------- ChapterStorage
NoFile == "<no file>"

Titles == {"T", " T "}
Contents == {"c1", "c2"}

\* Path.exists()
exists(f) == f # NoFile

\* str.strip()
strip(t) == IF t = " T " THEN "T" ELSE t

None == <<>>

\* save_chapter(chapter_index = i, title = t, content = c) up to
\* open(title_file, 'w'), which creates the file or empties it
SaveChapter ==
    \E i \in 1..MaxIndex, t \in Titles, c \in Contents :
        /\ spc = "idle"
        /\ spc' = "title"
        /\ chapter_index' = i
        /\ title' = t
        /\ content' = c
        /\ title_file' = [title_file EXCEPT ![i] = ""]
        /\ UNCHANGED content_file
        /\ UNCHANGED <<rvars, dvars, cvars, tvars>>

\* f.write(title) and the end of the first with block
WriteTitle ==
    /\ spc = "title"
    /\ spc' = "between"
    /\ title_file' = [title_file EXCEPT ![chapter_index] = title]
    /\ UNCHANGED <<content_file, chapter_index, title, content>>
    /\ UNCHANGED <<rvars, dvars, cvars, tvars>>

\* open(content_file, 'w')
OpenContent ==
    /\ spc = "between"
    /\ spc' = "content"
    /\ content_file' = [content_file EXCEPT ![chapter_index] = ""]
    /\ UNCHANGED <<title_file, chapter_index, title, content>>
    /\ UNCHANGED <<rvars, dvars, cvars, tvars>>

\* f.write(content), the end of the second with block and of save_chapter
WriteContent ==
    /\ spc = "content"
    /\ spc' = "idle"
    /\ content_file' = [content_file EXCEPT ![chapter_index] = content]
    /\ chapter_index' = 0
    /\ title' = ""
    /\ content' = ""
    /\ UNCHANGED title_file
    /\ UNCHANGED <<rvars, dvars, cvars, tvars>>

\* save_chapter does not reach its end: open or write raises OSError, or
\* the process is stopped; the files stay as they are
SaveInterrupted ==
    /\ spc # "idle"
    /\ spc' = "idle"
    /\ chapter_index' = 0
    /\ title' = ""
    /\ content' = ""
    /\ UNCHANGED <<title_file, content_file>>
    /\ UNCHANGED <<rvars, dvars, cvars, tvars>>

chapter_exists(i) == exists(title_file[i]) /\ exists(content_file[i])

load_chapter(i) ==
    IF ~exists(title_file[i]) \/ ~exists(content_file[i]) THEN None
    ELSE <<strip(title_file[i]), content_file[i]>>

\* the indexes of the files matching *_title.txt (the sorted list, as a set)
get_downloaded_chapters == {i \in 1..MaxIndex : exists(title_file[i])}

InitStore == RQuiet /\ DQuiet /\ CInit /\ SQuiet /\ TQuiet

NextStore ==
    \/ SaveChapter
    \/ WriteTitle
    \/ OpenContent
    \/ WriteContent
    \/ SaveInterrupted

SpecStore == InitStore /\ [][NextStore]_vars

\* ------------------------------- two threads on one Downloader instance
\* Each thread calls download once on instance "A", built with
\* retry_times = 1, after a download of the main thread was answered at 1.

\* download up to the end of the pacing check: _sleep_for_rate_limit reads
\* the clock and _last_request_ts (positive from the first answer on, so
\* the test of line 89 and the subtraction of line 93 see a positive stamp)
\* and goes to sleep
MtGate(t) ==
    \E j \in 0..interval_jitter :
        /\ tpc[t] = "gate"
        /\ tpc' = [tpc EXCEPT ![t] = "sleep"]
        /\ seen_ts' = [seen_ts EXCEPT ![t] = last_request_ts[self]]
        /\ wake' = [wake EXCEPT ![t] = now + RateLimitSleep(now, j)]
        /\ UNCHANGED started
        /\ UNCHANGED <<rvars, dvars, cvars, svars>>

\* time.sleep is over and session.get sends the request
MtGet(t) ==
    /\ tpc[t] = "sleep"
    /\ now >= wake[t]
    /\ tpc' = [tpc EXCEPT ![t] = "get"]
    /\ started' = [started EXCEPT ![t] = now]
    /\ UNCHANGED <<seen_ts, wake>>
    /\ UNCHANGED <<rvars, dvars, cvars, svars>>

\* the request is answered with a page: line 196 stamps, download returns
MtAnswered(t) ==
    /\ tpc[t] = "get"
    /\ tpc' = [tpc EXCEPT ![t] = "done"]
    /\ last_request_ts' = [last_request_ts EXCEPT ![self] = now]
    /\ UNCHANGED <<seen_ts, wake, started>>
    /\ UNCHANGED <<retry_times, self, dl_url, retry_after, wait_time, slept,
                   now, dpc, attempt, last_exception, dresult, tries, gets,
                   refetches, waits, calls, prev_end, prev_ok, gap,
                   last_done>>
    /\ UNCHANGED <<rvars, cvars, svars>>

\* the request fails: no stamp, and with retry_times = 1 download raises
MtFails(t) ==
    /\ tpc[t] = "get"
    /\ tpc' = [tpc EXCEPT ![t] = "done"]
    /\ UNCHANGED <<seen_ts, wake, started>>
    /\ UNCHANGED <<rvars, dvars, cvars, svars>>

\* time passes
MtTick ==
    /\ now < MaxClock
    /\ now' = now + 1
    /\ UNCHANGED <<retry_times, last_request_ts, self, dl_url, retry_after,
                   wait_time, slept, dpc, attempt, last_exception, dresult,
                   tries, gets, refetches, waits, calls, prev_end, prev_ok,
                   gap, last_done>>
    /\ UNCHANGED <<rvars, cvars, svars, tvars>>

InitMT ==
    /\ RQuiet /\ CInit /\ SQuiet
    /\ retry_times = 1
    /\ last_request_ts = [i \in Instances |-> IF i = "A" THEN 1 ELSE 0]
    /\ self = "A"
    /\ dl_url = NONE
    /\ retry_after = -1
    /\ wait_time = 0
    /\ slept = 0
    /\ now = 1
    /\ dpc = "idle"
    /\ attempt = 0
    /\ last_exception = NoExc
    /\ dresult = NoExc
    /\ tries = 0
    /\ gets = 0
    /\ refetches = 0
    /\ waits = 0
    /\ calls = 0
    /\ prev_end = [i \in Instances |-> -1]
    /\ prev_ok = FALSE
    /\ gap = -1
    /\ last_done = [i \in Instances |-> -1]
    /\ tpc = [t \in Threads |-> "gate"]
    /\ seen_ts = [t \in Threads |-> -1]
    /\ wake = [t \in Threads |-> -1]
    /\ started = [t \in Threads |-> -1]

NextMT ==
    \/ \E t \in Threads : MtGate(t)
    \/ \E t \in Threads : MtGet(t)
    \/ \E t \in Threads : MtAnswered(t)
    \/ \E t \in Threads : MtFails(t)
    \/ MtTick

SpecMT == InitMT /\ [][NextMT]_vars

\* ------------------------------------------------------------------ claims
\* C1 as stated: a download call on a Downloader with retry_times = k
\* issues at most k HTTP GETs.
C1_GetsAtMostRetryTimes == gets <= retry_times

\* C1 amended: a download call makes at most k attempts; an attempt issues
\* one GET, and one more only when the answer is Brotli that cannot be
\* decoded, so the call issues at most 2k GETs, and at most k when no answer
\* is such.
C1_AttemptsAtMostRetryTimes ==
    /\ tries <= retry_times
    /\ refetches <= tries
    /\ gets = tries + refetches

C1_Witness ==
    /\ dpc = "idle"
    /\ dresult.kind = "err"
    /\ retry_times >= 2
    /\ tries = retry_times
    /\ gets > retry_times

\* C2 as stated: the first network operation of a download call starts at
\* least base_interval after the previous call on the same Downloader ended.
C2_GapAfterEveryCall == gap = -1 \/ gap >= base_interval

\* the book in document order, now and when the pass began
F == Flat(volumes)
F0 == Flat(book0)

\* the fully-qualified address of a pointer that is a page address
Qualified(u) == Page(TRUE, u.art, u.chap, u.pg)

LastPointer == trail[Len(trail)][2]

\* C3: resolve_next_chapter_url(start) with start of identity (c, h): when
\* the n pages it fetched (1 <= n <= max_hops) all answered, and the pointer
\* of the n-th is a page address of identity (c, h') with h' # h, it returns
\* the fully-qualified address of that pointer.
C3_ReturnsNextChapter ==
    (/\ pc \in {"ret", "raised"}
     /\ Len(trail) >= 1
     /\ LastPointer.kind = "page"
     /\ LastPointer.art = article_id
     /\ LastPointer.chap # chapter_base)
    => (/\ pc = "ret"
        /\ Len(trail) <= MaxHops
        /\ \A k \in 1..(Len(trail) - 1) :
              _extract_article_and_chapter(trail[k][2])
                  = <<article_id, chapter_base>>
        /\ resolved_url = Qualified(LastPointer))

\* the chain P1 -> P2 (same chapter) -> P3 (next chapter), from a relative
\* pointer
C3_Witness ==
    /\ pc = "ret"
    /\ Len(trail) = 2
    /\ trail[1][2].chap = chapter_base
    /\ LastPointer.kind = "page"
    /\ ~LastPointer.abs
    /\ LastPointer.chap # chapter_base
    /\ resolved_url = Qualified(LastPointer)

\* where the site's pagination chain leaves the chapter of page a, looking
\* at no more than k pages: the first page of the next chapter, or NONE
RECURSIVE SiteWalk(_, _, _)
SiteWalk(a, base, k) ==
    IF k = 0 \/ a \notin SitePages THEN NONE
    ELSE LET p == site[a]
         IN  IF p.kind # "page" \/ p.art # a.art THEN NONE
             ELSE IF p.chap = base THEN SiteWalk(Qualified(p), base, k - 1)
             ELSE Qualified(p)

\* the chapter start reached from address a after n chapter boundaries
RECURSIVE ChainAt(_, _)
ChainAt(a, n) ==
    IF n = 0 THEN a
    ELSE LET b == ChainAt(a, n - 1)
         IN  IF b = NONE THEN NONE ELSE SiteWalk(b, b.chap, MaxHops)

\* C4: a resolved chapter C0 followed by n unresolved ones: when the site's
\* chain from C0 crosses n chapter boundaries and no download of the pass
\* fails, the pass resolves every Ci to the i-th chapter start of the chain;
\* and every target whose preceding entry holds a page address after the
\* pass was resolved from that address, successfully when the chain from it
\* crosses a chapter boundary.
C4_Cascade ==
    (pc = "done" /\ run \notin flaky) =>
        /\ \A i \in 1..MaxChapters, n \in 1..MaxChapters :
              (/\ i + n <= MaxChapters
               /\ ~F0[i].needs_resolve
               /\ F0[i].url.kind = "page"
               /\ \A k \in 1..n : /\ F0[i + k].needs_resolve
                                  /\ ChainAt(F0[i].url, k) # NONE)
              => \A k \in 1..n :
                    /\ ~F[i + k].needs_resolve
                    /\ F[i + k].url = ChainAt(F0[i].url, k)
        /\ \A j \in 2..MaxChapters :
              (/\ F0[j].needs_resolve
               /\ ~F[j - 1].needs_resolve
               /\ F[j - 1].url.kind = "page")
              => /\ used[j] = F[j - 1].url
                 /\ ChainAt(F[j - 1].url, 1) # NONE
                       => /\ ~F[j].needs_resolve
                          /\ F[j].url = ChainAt(F[j - 1].url, 1)

C4_Witness ==
    /\ pc = "done"
    /\ run \notin flaky
    /\ ~F0[1].needs_resolve
    /\ \A k \in 2..MaxChapters :
          /\ F0[k].needs_resolve
          /\ ~F[k].needs_resolve
          /\ used[k] = F[k - 1].url
    /\ F[2].url # F[1].url

\* C5 as stated: resolve_all_special_chapters never raises.
C5_NeverRaises == pc # "raised"

\* the chapters of the site are chained in document order: a page points to
\* the next page of its chapter or to the first page of the next chapter
SiteChained ==
    \A a \in SitePages :
        \/ site[a] = UNKNOWN
        \/ site[a] \in {Page(FALSE, 1, a.chap, a.pg + 1),
                        Page(FALSE, 1, a.chap + 1, 1),
                        Page(TRUE, 1, a.chap + 1, 1)}

\* C6 as stated: on a site chained in document order, an entry that a pass
\* resolved holds the first page of the chapter at its own position.
C6_OwnChapter ==
    SiteChained =>
        \A i \in 1..MaxChapters :
            F[i].original_url # NONE => F[i].url = Page(TRUE, 1, i, 1)

\* the chain has led back to an address visited in this call
CyclePending == pc = "hop" /\ ~JoinFails /\ full_url \in visited

\* C7: a call never begins more than max_hops iterations, every iteration
\* uses up one of them, and once the chain has led back to a visited
\* address the call returns None in its next step.
C7_CycleTerminates ==
    [][/\ pc' = "hop" => hops' <= MaxHops
       /\ (pc = "hop" /\ pc' = "hop") => hops' = hops + 1
       /\ CyclePending => (pc' = "ret" /\ resolved_url' = NONE
                           /\ hops' <= MaxHops)]_vars

\* a cycle of two pages, found in the last iteration the budget allows
C7_Witness ==
    /\ pc = "ret"
    /\ resolved_url = NONE
    /\ Cardinality(visited) = 1
    /\ Len(trail) = 1
    /\ hops = 2
    /\ Qualified(LastPointer) \in visited

\* C8: when resolve_next_chapter_url returned an address for a target, the
\* target ends with original_url = the url it had, url = the address
\* returned, needs_resolve = False.
C8_UpdateOnSuccess ==
    [][(pc = "ret" /\ resolved_url # NONE) =>
          /\ volumes'[vi].chapters[ci].original_url
                = volumes[vi].chapters[ci].url
          /\ volumes'[vi].chapters[ci].url = resolved_url
          /\ volumes'[vi].chapters[ci].needs_resolve = FALSE
          /\ volumes[vi].chapters[ci].url = PLACEHOLDER]_vars

C8_Witness ==
    \E i \in 1..MaxChapters :
        /\ F0[i].needs_resolve
        /\ F[i].original_url = PLACEHOLDER
        /\ F[i].url.kind = "page"
        /\ ~F[i].needs_resolve

\* the current target cannot be resolved
TargetFails ==
    \/ /\ AtChapter
       /\ ch.needs_resolve
       /\ \/ prev_info = NoPos
          \/ InvalidPrevUrl(prev_ch.url)
    \/ /\ pc = "ret"
       /\ resolved_url = NONE

\* C9: when the resolution of a target fails, the target is left with every
\* field as it was before the pass.
C9_FailureLeavesTarget ==
    [][TargetFails =>
          /\ volumes'[vi].chapters[ci] = book0[vi].chapters[ci]
          /\ volumes'[vi].chapters[ci].needs_resolve
          /\ pc' = "loop"]_vars

\* a pass that ended with a target it tried and could not resolve
C9_Witness ==
    /\ pc = "done"
    /\ \E i \in 1..MaxChapters :
          /\ used[i] # NONE
          /\ F[i] = Entry(i, "special")
    /\ \E i \in 1..MaxChapters : F[i].original_url # NONE

\* C10: with downloads that answer the same for the same address, a second
\* pass leaves the structure as the first pass left it.
C10_Idempotent == (run >= 2 /\ flaky = {}) => volumes = book0

\* after a first pass that resolved one target and failed on another
C10_Witness ==
    /\ run = 2
    /\ pc = "done"
    /\ flaky = {}
    /\ \E i \in 1..MaxChapters : F[i].original_url # NONE
    /\ \E i \in 1..MaxChapters : F[i].needs_resolve /\ used[i] # NONE

\* the target whose resolution is under way
Target == Pos(volumes, vi, ci)

\* C11: a book whose first chapter of the first volume is unresolved when a
\* pass begins: throughout the pass that chapter is as it was, still
\* unresolved with its address unchanged, resolve_next_chapter_url is not called
\* for it (so nothing is fetched for it), and the pass does not raise on it.
C11_NoPredecessorSkip ==
    F0[1].needs_resolve =>
        /\ F[1] = F0[1]
        /\ F[1].needs_resolve
        /\ used[1] = NONE
        /\ pc \in {"hop", "ret", "raised"} => Target # 1

\* a pass that skipped the first chapter and resolved a later one
C11_Witness ==
    /\ pc = "done"
    /\ F0[1].needs_resolve
    /\ F[1].url = PLACEHOLDER
    /\ \E i \in 2..MaxChapters : F0[i].needs_resolve /\ ~F[i].needs_resolve

\* chapter i and every chapter before it are unresolved
Leading(i) == \A j \in 1..i : F[j].needs_resolve

\* C12: no step of any pass changes a chapter that has no resolved chapter
\* before it in document order, or calls resolve_next_chapter_url for it:
\* the unresolved chapters that lead the book stay as they are, whatever
\* the site answers and however many passes run.
C12_LeadingUnresolvedStay ==
    [][\A i \in 1..MaxChapters :
          Leading(i) => /\ Flat(volumes')[i] = F[i]
                        /\ used'[i] = NONE]_vars

\* two passes over a book that begins with two unresolved chapters and
\* continues with a resolved one
C12_Witness ==
    /\ run = 2
    /\ pc = "done"
    /\ Leading(2)
    /\ ~F[3].needs_resolve
    /\ F[1] = Entry(1, "special")
    /\ F[2] = Entry(2, "special")

\* an entry as _extract_volumes builds it: needs_resolve is True exactly
\* when the address is the placeholder
AsParsed(c) == c.needs_resolve <=> (c.url = PLACEHOLDER)

ParserBuilt(vols) == \A i \in 1..MaxChapters : AsParsed(Flat(vols)[i])

\* C13: no step of a pass takes a structure in which every entry has
\* needs_resolve = True exactly when its address is the placeholder to one
\* in which some entry has not; a structure built by the catalog parser is
\* such a structure, so it is one after any sequence of passes.
C13_FlagMatchesAddress ==
    [][ParserBuilt(volumes) => ParserBuilt(volumes')]_vars

\* a parser-built book after two passes, with one entry resolved and one
\* left unresolved
C13_Witness ==
    /\ run = 2
    /\ pc = "done"
    /\ ParserBuilt(volumes)
    /\ \E i \in 1..MaxChapters :
          F[i].original_url = PLACEHOLDER /\ F[i].url.kind = "page"
    /\ \E i \in 1..MaxChapters : F[i].needs_resolve

\* C15: a step that gives an entry its original_url is the update of that
\* entry after resolve_next_chapter_url returned an address for it, the
\* value written is the placeholder the entry held until then, and no step
\* changes an original_url once it is there.
C15_OriginalWrittenOnce ==
    [][\A i \in 1..MaxChapters :
          LET a == F[i]
              b == Flat(volumes')[i]
          IN  /\ a.original_url # NONE => b.original_url = a.original_url
              /\ (a.original_url = NONE /\ b.original_url # NONE) =>
                    /\ pc = "ret"
                    /\ resolved_url # NONE
                    /\ Target = i
                    /\ a.needs_resolve
                    /\ a.url = PLACEHOLDER
                    /\ b.original_url = PLACEHOLDER
                    /\ b.url = resolved_url
                    /\ ~b.needs_resolve]_vars

\* an entry resolved in the first pass, after a second pass that resolved
\* another one
C15_Witness ==
    /\ run = 2
    /\ pc = "done"
    /\ \E i, j \in 1..MaxChapters :
          /\ F0[i].original_url = PLACEHOLDER
          /\ F[i] = F0[i]
          /\ F0[j].original_url = NONE
          /\ F[j].original_url = PLACEHOLDER

\* the placeholder or the empty string
NoAddress(u) == u \in {PLACEHOLDER, EMPTY}

\* C14: whatever the structure holds, no download of a pass, no address
\* handed to resolve_next_chapter_url and no page load of parse_chapter has
\* the placeholder or the empty string as its target.
C14_PlaceholderNeverLoaded ==
    /\ \A k \in 1..Len(trail) : ~NoAddress(trail[k][1])
    /\ pc \in {"hop", "ret"} => ~NoAddress(prev_url)
    /\ pc = "hop" => ~NoAddress(current_url)
    /\ \A u \in loads : ~NoAddress(u)
    /\ cpc = "page" => ~NoAddress(cur)

\* a structure whose second entry is marked resolved and carries the
\* placeholder: the pass gave up on the third entry, and parse_chapter went
\* through all chapters, loading the first and skipping the other two
C14_Witness ==
    /\ cpc = "done"
    /\ todo = F
    /\ force
    /\ F[1] = Entry(1, "normal")
    /\ F[2] = Entry(2, "stale")
    /\ F[3] = Entry(3, "special")
    /\ F[1].url \in loads
    /\ Cardinality(loads) = 2

\* an attempt of the current call ended with a 429 answer in this step
Step429 == tries' = tries + 1 /\ last_exception' = Exc("e429", attempt)

\* an attempt ended with another RequestException of a request that was sent
StepError == tries' = tries + 1 /\ last_exception' = Exc("err", attempt)

\* C16 as stated: after a 429 answer in attempt a the wait is the
\* Retry-After value when the header is there, and retry_delay * (a+1) * 3
\* when it is not.
C16_WaitIsHint ==
    [][Step429 =>
          wait_time' = IF retry_after' >= 0 THEN retry_after'
                       ELSE retry_delay * (attempt + 1) * 3]_vars

\* C16 amended: after a 429 answer in attempt a the wait is the larger of
\* the Retry-After value and retry_delay * (a+1) * 3, and it is the latter
\* when the header is absent or not an integer; the clock advances by that
\* wait before the next attempt.
C16_WaitIsMaxOfHintAndDefault ==
    [][Step429 =>
          /\ wait_time' >= retry_delay * (attempt + 1) * 3
          /\ wait_time' >= retry_after'
          /\ wait_time' \in {retry_after', retry_delay * (attempt + 1) * 3}
          /\ now' >= now + wait_time'
          /\ attempt' = attempt + 1]_vars

\* a 429 answer in the second attempt that carries a hint (MaxHint) below
\* the default of that attempt
C16_Witness ==
    /\ dpc = "loop"
    /\ attempt = 2
    /\ last_exception = Exc("e429", 1)
    /\ retry_after = MaxHint
    /\ retry_after > 0
    /\ wait_time = retry_delay * 2 * 3
    /\ wait_time > retry_after

C18_MalformedNotRetried == Rejected(dl_url) => (tries <= 1 /\ waits = 0)

\* the call made every attempt its retry_times allows and raised
Exhausted ==
    /\ dpc = "idle"
    /\ retry_times >= 1
    /\ tries = retry_times
    /\ dresult.kind \notin {"ok", "none"}

\* C19: with retry_times >= 1, a call that fails after its last attempt
\* raises a RequestException, and it is the one of the last attempt, be
\* it a 429 answer or another failure.
C19_RaisesLastError ==
    Exhausted =>
        /\ dresult.kind \in {"e429", "err", "invalid"}
        /\ dresult.at = retry_times - 1
        /\ dresult = last_exception

\* three attempts, the last one answered 429
C19_Witness ==
    /\ Exhausted
    /\ retry_times = 3
    /\ dresult = Exc("e429", 2)
    /\ waits = 3

\* the sleeps _sleep_for_rate_limit can make at time t on an instance whose
\* _last_request_ts is ts
PacingSleeps(ts, t) ==
    IF ts <= 0 THEN {0}
    ELSE {Max(0, base_interval + j - (t - ts)) : j \in 0..interval_jitter}

\* C20: no step of a download call changes the _last_request_ts of another
\* instance than the one it is called on, and the rate-limit sleep of an
\* attempt is decided by the _last_request_ts of that instance alone.
C20_PacingPerInstance ==
    [][/\ \A i \in Instances :
             i # self' => last_request_ts'[i] = last_request_ts[i]
       /\ tries' = tries + 1 =>
             slept' \in PacingSleeps(last_request_ts[self], now)]_vars

\* a download on B that was sent and answered at the instant a download on
\* A had completed
C20_Witness ==
    /\ dpc = "idle"
    /\ self = "B"
    /\ dresult.kind = "ok"
    /\ slept = 0
    /\ last_request_ts["A"] > 0
    /\ last_request_ts["B"] = last_request_ts["A"]

\* a pointer to a page of the chapter the call started from
SameChapter(r) ==
    _extract_article_and_chapter(r) = <<article_id, chapter_base>>

\* every page fetched so far pointed to a page of the starting chapter
AllSameChapter == \A k \in 1..Len(trail) : SameChapter(trail[k][2])

\* C21: a call of resolve_next_chapter_url downloads at most max_hops pages;
\* when max_hops pages were downloaded and each pointed to a page of the
\* starting chapter, the call returns None; when the max_hops-th page
\* downloaded points to a page address of another chapter of the same book,
\* the call returns that address.
C21_HopBudget ==
    /\ Len(trail) <= MaxHops
    /\ Len(trail) <= hops
    /\ (pc \in {"ret", "raised"} /\ Len(trail) = MaxHops /\ AllSameChapter)
          => (pc = "ret" /\ resolved_url = NONE)
    /\ (/\ pc \in {"ret", "raised"}
        /\ Len(trail) = MaxHops
        /\ LastPointer.kind = "page"
        /\ LastPointer.art = article_id
        /\ LastPointer.chap # chapter_base)
          => (pc = "ret" /\ resolved_url = Qualified(LastPointer))

\* max_hops pages of one chapter were downloaded, the last of them pointing
\* on within the chapter, and the call gave up
C21_Witness ==
    /\ pc = "ret"
    /\ resolved_url = NONE
    /\ Len(trail) = MaxHops
    /\ hops = MaxHops
    /\ Cardinality(visited) = MaxHops
    /\ AllSameChapter

\* C22 as stated: an address returned by resolve_next_chapter_url has the
\* article id of the start address and a chapter id other than that of the
\* start address.
C22_ReturnsOtherChapterOfSameBook ==
    (pc = "ret" /\ resolved_url # NONE) =>
        /\ _extract_article_and_chapter(resolved_url) # NoIds
        /\ _extract_article_and_chapter(resolved_url)[1] = article_id
        /\ _extract_article_and_chapter(resolved_url)[2] # chapter_base

\* resolve_next_chapter_url is running or has returned
InCall == pc \in {"hop", "ret", "raised"}

\* C23: when no ids can be parsed from the address resolve_next_chapter_url
\* is called with, the call returns None before its loop: nothing is
\* downloaded, no iteration begins and nothing is raised.
C23_UnparseableStart ==
    (InCall /\ _extract_article_and_chapter(prev_url) = NoIds) =>
        /\ pc = "ret"
        /\ resolved_url = NONE
        /\ trail = <<>>
        /\ visited = {}
        /\ hops = 0

\* the entry before the target links to something that is not a chapter page
C23_Witness ==
    /\ pc = "ret"
    /\ prev_url = Other(TRUE)
    /\ used[Target] = Other(TRUE)
    /\ resolved_url = NONE
    /\ trail = <<>>

\* what a downloaded page held: no nextpage variable, or a pointer in which
\* CHAPTER_ID_PATTERN finds nothing
NoWayOn(r) ==
    \/ r = NONE
    \/ r \in Pointers /\ _extract_article_and_chapter(r) = NoIds

\* C24: a page downloaded by resolve_next_chapter_url that has no nextpage
\* variable, or one in which no ids are found, is the last page the call
\* downloads, and the call returns None right after it.
C24_NoPointerEndsCall ==
    \A k \in 1..Len(trail) :
        NoWayOn(trail[k][2]) =>
            /\ k = Len(trail)
            /\ pc = "ret"
            /\ resolved_url = NONE

\* the second page of the chain points to something that is not a chapter
\* page
C24_Witness ==
    /\ pc = "ret"
    /\ resolved_url = NONE
    /\ Len(trail) = 2
    /\ SameChapter(trail[1][2])
    /\ LastPointer = Other(FALSE)

\* C25: a download that raised is the last download of the call of
\* resolve_next_chapter_url that made it: the call returns None right after
\* it and raises nothing; the Downloader's retry_times is what it was built
\* with.
C25_DownloadFailureEndsCall ==
    /\ \A k \in 1..Len(trail) :
          trail[k][2] = FAIL =>
              /\ k = Len(trail)
              /\ pc = "ret"
              /\ resolved_url = NONE
    /\ retry_times = 3

\* the download of the second page of the chain raised, on a page that
\* answers at other times
C25_Witness ==
    /\ pc = "ret"
    /\ resolved_url = NONE
    /\ Len(trail) = 2
    /\ LastPointer = FAIL
    /\ trail[2][1] \in SitePages
    /\ run \in flaky

\* document positions before the target whose entry is resolved
Before == {j \in 1..(Target - 1) : ~F[j].needs_resolve}

\* the last of them
Nearest == CHOOSE j \in Before : \A m \in Before : m <= j

\* C26: at an unresolved target, find_prev_normal_chapter finds nothing when
\* no entry before the target in document order is resolved, and otherwise
\* the last resolved entry before it, be it in the target's volume or in an
\* earlier one; the address resolve_next_chapter_url is called with is the
\* address of that entry as the structure is at that moment.
C26_NearestResolvedBefore ==
    /\ (AtChapter /\ ch.needs_resolve) =>
          IF Before = {} THEN prev_info = NoPos
          ELSE /\ prev_info # NoPos
               /\ Pos(volumes, prev_info[1], prev_info[2]) = Nearest
    /\ InCall =>
          /\ Before # {}
          /\ prev_url = F[Nearest].url
          /\ used[Target] = prev_url

\* the first chapter of the second volume is resolved from the first chapter
\* of the book: the chapter between them, the last of the first volume, is
\* unresolved
C26_Witness ==
    /\ pc = "hop"
    /\ vi = 2
    /\ ci = 1
    /\ Target = 3
    /\ F[2].needs_resolve
    /\ prev_url = F[1].url
    /\ F[1] = Entry(1, "normal")

\* C27: no step of a pass changes the number of volumes, a volume's name or
\* number of chapters, or the index or title of a chapter; an entry that is
\* resolved is left as it is, and an entry that changes is the target of the
\* call that has just returned, unresolved until then.
C27_Frame ==
    [][/\ Len(volumes') = Len(volumes)
       /\ \A v \in 1..Len(volumes) :
             /\ volumes'[v].volume_name = volumes[v].volume_name
             /\ Len(volumes'[v].chapters) = Len(volumes[v].chapters)
             /\ \A c \in 1..Len(volumes[v].chapters) :
                   LET a == volumes[v].chapters[c]
                       b == volumes'[v].chapters[c]
                   IN  /\ b.index = a.index
                       /\ b.title = a.title
                       /\ ~a.needs_resolve => b = a
                       /\ b # a => /\ pc = "ret"
                                   /\ v = vi
                                   /\ c = ci
                                   /\ a.needs_resolve]_vars

\* a pass over two volumes that resolved the last chapter of the first and
\* left the resolved first chapter and the rest as they were
C27_Witness ==
    /\ pc = "done"
    /\ Len(volumes) = 2
    /\ Len(volumes[1].chapters) = 2
    /\ F0[1] = Entry(1, "normal")
    /\ F[1] = F0[1]
    /\ F0[2].needs_resolve
    /\ ~F[2].needs_resolve
    /\ F[3] = F0[3]

\* C28: a 429 answer in an attempt that is not the last one is followed by
\* a wait and leaves the call running with an attempt to make; a call that
\* raised a 429 error has made retry_times attempts.
C28_429NotFatal ==
    [][/\ (Step429 /\ attempt < retry_times - 1) =>
             /\ dpc' = "loop"
             /\ attempt' = attempt + 1
             /\ attempt' < retry_times
             /\ wait_time' > 0
             /\ waits' = waits + 1
             /\ now' >= now + wait_time'
             /\ dresult' = NoExc
       /\ (dpc' = "idle" /\ dresult'.kind = "e429") =>
             /\ tries' = retry_times
             /\ dresult'.at = retry_times - 1]_vars

\* a call whose first attempt was answered 429 and whose second returned
C28_Witness ==
    /\ dpc = "idle"
    /\ dresult = Exc("ok", 1)
    /\ last_exception = Exc("e429", 0)
    /\ tries = 2
    /\ waits = 1

\* an attempt that sends a request is made in this step
StepRequest == tries' = tries + 1 /\ ~Rejected(dl_url)

\* C29 as stated: every request of an instance that is not its first starts
\* at least base_interval after the previous request of that instance was
\* over, whether that one returned or failed, the request issued again
\* within an attempt included.
C29_GateBeforeEveryRequest ==
    [][StepRequest =>
          /\ last_done[self] >= 0 =>
                (now + slept') - last_done[self] >= base_interval
          /\ refetches' # refetches => RefetchGap >= base_interval]_vars

\* C30: a step that changes _last_request_ts is the return of download on
\* that instance, and the new value is the time of that return; the steps of
\* a call that raises leave it as it is, and no value ever decreases.
C30_StampOnlyOnSuccess ==
    [][/\ \A i \in Instances : last_request_ts'[i] >= last_request_ts[i]
       /\ last_request_ts' # last_request_ts =>
             /\ dpc = "loop"
             /\ dpc' = "idle"
             /\ dresult'.kind = "ok"
             /\ prev_ok'
             /\ last_request_ts'[self] = now'
             /\ now' >= now
       /\ (dpc' = "idle" /\ dresult'.kind # "ok") =>
             last_request_ts' = last_request_ts
       /\ (dpc = "loop" /\ dpc' = "loop") =>
             last_request_ts' = last_request_ts]_vars

\* an instance that returned a page and then raised after three attempts,
\* some time later: its _last_request_ts is that of the first call
C30_Witness ==
    /\ calls = 2
    /\ self = "A"
    /\ dpc = "idle"
    /\ dresult.kind \in {"err", "e429"}
    /\ tries = 3
    /\ last_request_ts["A"] > 0
    /\ last_request_ts["A"] < last_done["A"]
    /\ last_request_ts["B"] = 0

\* the addresses downloaded so far in the current call
Fetched == {trail[k][1] : k \in 1..Len(trail)}

\* C33: during a call of resolve_next_chapter_url the visited set is the set
\* of the addresses the call has downloaded, and no address was downloaded
\* twice; when the next address is in the set the call returns None without
\* downloading it.
C33_NoAddressFetchedTwice ==
    [][/\ InCall' =>
             /\ visited' = Fetched'
             /\ Cardinality(Fetched') = Len(trail')
       /\ CyclePending =>
             /\ trail' = trail
             /\ pc' = "ret"
             /\ resolved_url' = NONE]_vars

\* the first page of the chapter points to itself by a relative path: the
\* second iteration finds its address in visited
C33_Witness ==
    /\ pc = "ret"
    /\ resolved_url = NONE
    /\ hops = 2
    /\ Len(trail) = 1
    /\ trail[1][1] = Page(TRUE, 1, chapter_base, 1)
    /\ LastPointer = Page(FALSE, 1, chapter_base, 1)
    /\ visited = {trail[1][1]}

\* the call ended by raising out of the retry loop or after it
Failed == dpc = "idle" /\ dresult.kind \notin {"ok", "none", "ValueError"}

\* C39 as stated: a download call with retry_times >= 1 that raises has
\* slept for backoff at most retry_times - 1 times.
C39_NoWaitAfterLastAttempt ==
    (Failed /\ retry_times >= 1) => waits <= retry_times - 1

\* C40 as stated: with retry_times = 0 a download call sends no request and
\* raises a requests.RequestException.
C40_ZeroRetriesRaisesTransportError ==
    (Failed /\ retry_times = 0) =>
        /\ gets = 0
        /\ tries = 0
        /\ dresult.kind \in {"e429", "err", "invalid"}

\* C31 as stated: an attempt sends one request, or two when the answer is
\* Brotli that cannot be decoded; the second goes out without
\* Accept-Encoding, and when it fails the attempt ends as it does when the
\* first fails: backoff and next attempt, or raise in the last attempt.
C31_ReissueOncePlain ==
    [][tries' = tries + 1 =>
          /\ gets' - gets \in {1, 2}
          /\ gets' - gets = 1 + (refetches' - refetches)
          /\ refetches' # refetches =>
                /\ ReissuedAcceptEncoding = "absent"
                /\ StepError =>
                      IF attempt < retry_times - 1
                      THEN /\ wait_time' = retry_delay * (attempt + 1)
                           /\ attempt' = attempt + 1
                           /\ dpc' = "loop"
                      ELSE /\ dpc' = "idle"
                           /\ dresult' = Exc("err", attempt)]_vars

\* a nextpage pointer method 1 of _find_next_page_url can do nothing with:
\* no nextpage variable, or one in which no ids are found
Unusable == {NONE} \cup {o \in Pointers : _extract_article_and_chapter(o) = NoIds}

\* C35 as stated: at page N of a chapter, _find_next_page_url given a page
\* without usable nextpage pointer returns the address of page N + 1 of that
\* chapter.
C35_FallbackNextPage ==
    (cpc = "page" /\ cur.kind = "page") =>
        \A o \in Unusable :
            /\ ~CpFindNextRaises(o, cur)
            /\ CpFindNext(o, cur) = Page(TRUE, cur.art, cur.chap, cur.pg + 1)

\* C36 as stated: _download_chapter_content never loads an address it has
\* loaded for the chapter, whatever the pages hold.
C36_NoPageLoadedTwice ==
    \A i, k \in 1..Len(loaded) : i # k => loaded[i] # loaded[k]

\* C37 as stated: every page loaded after the first of a chapter has the
\* ids of the first, and at a page with ids a nextpage pointer with other
\* ids gives no further page.
C37_PagesOfOneChapter ==
    cpc = "page" =>
        /\ \A k \in 2..Len(loaded) :
              /\ _extract_article_and_chapter(loaded[k]) # NoIds
              /\ _extract_article_and_chapter(loaded[k])
                    = _extract_article_and_chapter(loaded[1])
        /\ \A o \in Pointers :
              (/\ _extract_article_and_chapter(cur) # NoIds
               /\ _extract_article_and_chapter(o) # NoIds
               /\ _extract_article_and_chapter(o)
                     # _extract_article_and_chapter(cur))
              => (~CpFindNextRaises(o, cur) /\ CpFindNext(o, cur) = NONE)

\* C34: when the pass of parse_catalog is over, whether it returned or
\* raised, parse_catalog can go on to save; what it saves and returns is the
\* structure as the pass left it, in which every entry still unresolved is
\* as it was before the pass, with the placeholder when the parser built it.
C34_CatalogSurvivesResolver ==
    /\ (pc \in {"done", "raised"} /\ cpc = "idle") => ENABLED SaveStructure
    /\ (pc = "saved" /\ cpc = "idle") =>
          /\ file = volumes
          /\ Len(file) = Len(book0)
          /\ \A i \in 1..MaxChapters :
                Flat(file)[i].needs_resolve =>
                    /\ Flat(file)[i] = F0[i]
                    /\ AsParsed(F0[i]) => Flat(file)[i].url = PLACEHOLDER

\* the first pass raised on a pointer urljoin rejects while resolving the
\* second entry, after which the structure was saved with that entry and the
\* third as parsed
C34_Witness ==
    /\ pc = "saved"
    /\ cpc = "idle"
    /\ run = 1
    /\ Len(trail) >= 1
    /\ LastPointer.kind = "bad"
    /\ Target = 2
    /\ Flat(file)[2] = Entry(2, "special")
    /\ Flat(file)[3] = Entry(3, "special")
    /\ Flat(file)[1] = Entry(1, "normal")

\* C38: between two calls of save_chapter, also after one that did not
\* reach its end, every index get_downloaded_chapters returns satisfies
\* chapter_exists and load_chapter gives a pair for it.
C38_ListedChaptersLoad ==
    spc = "idle" =>
        \A i \in get_downloaded_chapters :
            chapter_exists(i) /\ load_chapter(i) # None

Close(a, b) ==
    /\ started[a] >= 0
    /\ started[b] >= 0
    /\ started[a] - started[b] < base_interval
    /\ started[b] - started[a] < base_interval

\* C32: every thread starts its request at least base_interval after the
\* stamp its pacing check read, and yet the requests of two threads can
\* start less than base_interval apart, which happens only when both checks
\* read the same stamp: nothing keeps the second check from running before
\* the first request is answered.
C32_CloseOnlyBySameStamp ==
    /\ \A t \in Threads :
          started[t] >= 0 => started[t] >= seen_ts[t] + base_interval
    /\ \A a, b \in Threads :
          (a # b /\ Close(a, b)) => seen_ts[a] = seen_ts[b]

\* both threads passed the pacing check against the stamp of the fetch
\* before them and their requests started less than base_interval apart
C32_Witness ==
    /\ seen_ts["T1"] = 1
    /\ seen_ts["T2"] = 1
    /\ Close("T1", "T2")
    /\ started["T1"] >= 1 + base_interval
    /\ started["T2"] >= 1 + base_interval
    /\ tpc["T1"] = "get"
    /\ tpc["T2"] = "get"

TypeOK == pc \in {"idle", "loop", "hop", "ret", "done", "raised", "saved"}

====
